---- MODULE Spec2Model ----
(***************************************************************************)
(* capacitor-ad-slots: the slot registry (slot-registry.ts) and the ad     *)
(* orchestration service (ad-service.ts) as a state machine.               *)
(*                                                                         *)
(* Every async function of the service is a task whose pc names the await  *)
(* it is suspended at.  One action is the synchronous code between two     *)
(* awaits.  Tasks interleave at awaits only (single-threaded event loop).  *)
(* The AdMob plugin and Capacitor are the environment: each awaited call   *)
(* resolves or rejects nondeterministically.                               *)
(***************************************************************************)
EXTENDS Naturals, FiniteSets, Sequences, Bags, TLC

\* ---------------------------------------------------------------- bounds
MaxOps == 3        \* public service operations called in one behaviour
MaxTimers == 1     \* pending pre-load timers
MaxBannerOps == 4  \* operations called in one behaviour of the banner-only use

\* ---------------------------------------------------------------- values
\* the async calls that may be suspended at the same time
Tasks == {1, 2}
NoSlot == "null"
Ids == {"b1", "b2", "constructor"}
\* ids the application passes to the service
SlotArgs == {"b1", "b2"}
\* keys every object inherits from Object.prototype (registry is a plain {})
ProtoKeys == {"constructor"}
Tri == {"undefined", "true", "false"}
SlotTypes == {"banner", "interstitial", "rewarded"}
Configs == [type : SlotTypes, isTesting : Tri]
\* getSlot(id) for an id that is not in the registry at all
Undefined == [type |-> "none", isTesting |-> "undefined"]
\* getSlot("constructor") when not defined: Object, which has no type field
ProtoValue == [type |-> "proto", isTesting |-> "undefined"]
ConsentStatuses == {"REQUIRED", "UNKNOWN", "NOT_REQUIRED", "OBTAINED"}

VARIABLES
  registry,           \* slot-registry.ts: const registry
  isInitialized,      \* ad-service.ts: ref(false)
  adsRemoved,         \* ad-service.ts: ref(false)
  currentBannerSlot,  \* ad-service.ts: ref(null)
  AdMob,              \* TRUE once loadAdMob() has bound the plugin
  coreLoaded,         \* TRUE once import('@capacitor/core') has succeeded
  native,             \* Capacitor.isNativePlatform() of this process
  tasks,              \* suspended async calls
  timers,             \* pending setTimeout(prepareInterstitial) callbacks
  extBanner,          \* banner the plugin displays (shown, not hidden/removed)
  initIsTesting,      \* options.isTesting of the initialize() that succeeded
  ev,                 \* the return the last step made, if it made one
  opsLeft             \* public service calls the behaviour may still make

vars == <<registry, isInitialized, adsRemoved, currentBannerSlot, AdMob,
          coreLoaded, native, tasks, timers, extBanner, initIsTesting, ev,
          opsLeft>>

flags == <<isInitialized, adsRemoved, currentBannerSlot>>

\* ok: the request this call last resumed from resolved (it did not reject)
IdleTask == [pc |-> "idle", op |-> "none", slot |-> NoSlot, gt |-> "undefined",
             cfg |-> Undefined, testing |-> FALSE, by |-> "none",
             sawOther |-> FALSE, opt |-> "undefined", ok |-> TRUE]

\* no consent information received in this step
NoInfo == [isConsentFormAvailable |-> FALSE, status |-> "none"]

\* arg, redef: the mapping a registry call was given, and whether it replaced a
\* different configuration; info: the consent information on which the step
\* presented the consent form
NoEv == [op |-> "none", by |-> "none", slot |-> NoSlot, done |-> "none",
         ok |-> FALSE, ret |-> "none", lis |-> "none", arg |-> << >>,
         redef |-> FALSE, info |-> NoInfo]

\* ---------------------------------------------------------- slot registry
hasSlot(id) == id \in DOMAIN registry \/ id \in ProtoKeys

getSlot(id) ==
  IF id \in DOMAIN registry THEN registry[id]
  ELSE IF id \in ProtoKeys THEN ProtoValue
  ELSE Undefined

getSlotIds == DOMAIN registry

\* registry after merging mapping m into it, entry by entry
Merge(reg, m) ==
  [id \in DOMAIN reg \cup DOMAIN m |-> IF id \in DOMAIN m THEN m[id] ELSE reg[id]]

\* mappings an application passes to defineSlots
SlotMaps ==
  { [id \in {"b1", "b2"} |->
       IF id = "b1" THEN [type |-> "banner", isTesting |-> "undefined"]
       ELSE [type |-> "banner", isTesting |-> "true"]],
    [id \in {"b1", "b2"} |->
       IF id = "b1" THEN [type |-> "interstitial", isTesting |-> "false"]
       ELSE [type |-> "rewarded", isTesting |-> "true"]] }

\* the registry call of the step, as an event
DefEv(op, m) ==
  [NoEv EXCEPT !.op = op, !.arg = m,
               !.redef = \E id \in DOMAIN m :
                           id \in DOMAIN registry /\ registry[id] # m[id]]

defineSlots(m) ==
  /\ registry' = Merge(registry, m)
  /\ ev' = DefEv("defineSlots", m)
  /\ UNCHANGED <<isInitialized, adsRemoved, currentBannerSlot, AdMob, coreLoaded,
                 native, tasks, timers, extBanner, initIsTesting, opsLeft>>

\* defineSlot that merges the new fields into the configuration already there
\* ({...registry[id], ...config}): a field the new one lacks keeps its old value
defineSlotKeepsFields(id, config) ==
  /\ registry' = [i \in DOMAIN registry \cup {id} |->
                    IF i # id THEN registry[i]
                    ELSE IF id \in DOMAIN registry /\ config.isTesting = "undefined"
                    THEN [config EXCEPT !.isTesting = registry[id].isTesting]
                    ELSE config]
  /\ ev' = DefEv("defineSlot", [i \in {id} |-> config])
  /\ UNCHANGED <<isInitialized, adsRemoved, currentBannerSlot, AdMob, coreLoaded,
                 native, tasks, timers, extBanner, initIsTesting, opsLeft>>

defineSlot(id, config) ==
  /\ registry' = [i \in DOMAIN registry \cup {id} |->
                    IF i = id THEN config ELSE registry[i]]
  /\ ev' = DefEv("defineSlot", [i \in {id} |-> config])
  /\ UNCHANGED <<isInitialized, adsRemoved, currentBannerSlot, AdMob, coreLoaded,
                 native, tasks, timers, extBanner, initIsTesting, opsLeft>>

\* ------------------------------------------------------------ ad service
\* shouldShowAds that looks at the initialized flag only
shouldShowAdsIgnoresRemoved == isInitialized

shouldShowAds == isInitialized /\ ~adsRemoved

\* resolveTesting with the precedence reversed: the slot's own flag wins
resolveTestingSlotFirst(slot, globalTesting) ==
  IF slot.isTesting # "undefined" THEN slot.isTesting = "true"
  ELSE globalTesting = "true"

resolveTesting(slot, globalTesting) ==
  IF globalTesting # "undefined" THEN globalTesting = "true"
  ELSE IF slot.isTesting # "undefined" THEN slot.isTesting = "true"
  ELSE FALSE

\* outcomes of `await isNative()`: the dynamic import can only fail while the
\* module has never been loaded; afterwards it comes from the module cache
HostOutcomes ==
  (IF native THEN {"native"} ELSE {"web"}) \cup (IF coreLoaded THEN {} ELSE {"reject"})

\* outcomes of `await loadAdMob()`: returns at once when AdMob is bound
LoadOutcomes == IF AdMob THEN {TRUE} ELSE {TRUE, FALSE}

HasFree == \E t \in Tasks : tasks[t].pc = "idle"
FreeTask == CHOOSE t \in Tasks :
              tasks[t].pc = "idle" /\ \A u \in Tasks : u < t => tasks[u].pc # "idle"

\* the module state after import
Constructed ==
  /\ registry = << >>
  /\ isInitialized = FALSE
  /\ adsRemoved = FALSE
  /\ currentBannerSlot = NoSlot
  /\ AdMob = FALSE
  /\ coreLoaded = FALSE
  /\ native \in BOOLEAN
  /\ tasks = [t \in Tasks |-> IdleTask]
  /\ timers = EmptyBag
  /\ extBanner = NoSlot
  /\ initIsTesting = "undefined"
  /\ ev = NoEv

Init == Constructed /\ opsLeft = MaxOps

\* the event of task t returning ret after its awaited call `done` ended ok
EvOf(t, done, ok, ret) ==
  [op |-> tasks[t].op, by |-> tasks[t].by, slot |-> tasks[t].slot,
   done |-> done, ok |-> ok, ret |-> ret, lis |-> "none", arg |-> << >>,
   redef |-> FALSE, info |-> NoInfo]

\* task t returns to its caller with ret
Return(t, done, ok, ret) ==
  /\ tasks' = [tasks EXCEPT ![t] = IdleTask]
  /\ ev' = EvOf(t, done, ok, ret)

\* what the public operation of task t returns when its body ends normally
RetOf(t, inner) == IF tasks[t].op = "triggerRewarded" THEN inner ELSE "void"

\* a public operation is called and suspends at its first await
Call(op, slot, gt, pc) ==
  /\ opsLeft > 0
  /\ HasFree
  /\ opsLeft' = opsLeft - 1
  /\ tasks' = [tasks EXCEPT ![FreeTask] =
                 [IdleTask EXCEPT !.pc = pc, !.op = op, !.slot = slot, !.gt = gt,
                                  !.by = "caller"]]
  /\ ev' = NoEv

\* a public operation is called and returns before any await
CallReturns(op, slot, ret) ==
  /\ opsLeft > 0
  /\ opsLeft' = opsLeft - 1
  /\ tasks' = tasks
  /\ ev' = [NoEv EXCEPT !.op = op, !.slot = slot, !.ret = ret]

\* ---- initialize; opt is options.isTesting, which the function never reads
initialize(opt) ==
  /\ opsLeft > 0
  /\ HasFree
  /\ opsLeft' = opsLeft - 1
  /\ tasks' = [tasks EXCEPT ![FreeTask] =
                 [IdleTask EXCEPT !.pc = "init_isNative", !.op = "initialize",
                                  !.opt = opt, !.by = "caller"]]
  /\ ev' = NoEv
  /\ UNCHANGED <<registry, isInitialized, adsRemoved, currentBannerSlot, AdMob,
                 coreLoaded, native, timers, extBanner, initIsTesting>>

\* initializeNative that goes on to load the plugin whatever the host is
initializeNativeAnyHost(t, h) ==
  /\ tasks[t].pc = "init_isNative"
  /\ h \in HostOutcomes
  /\ coreLoaded' = (coreLoaded \/ h # "reject")
  /\ CASE h = "reject" -> Return(t, "isNative", FALSE, "rejected")
       [] OTHER -> /\ tasks' = [tasks EXCEPT ![t].pc = "init_load"]
                   /\ ev' = NoEv
  /\ UNCHANGED <<registry, isInitialized, adsRemoved, currentBannerSlot, AdMob,
                 native, timers, extBanner, initIsTesting, opsLeft>>

initializeNative(t, h) ==
  /\ tasks[t].pc = "init_isNative"
  /\ h \in HostOutcomes
  /\ coreLoaded' = (coreLoaded \/ h # "reject")
  /\ CASE h = "reject" -> Return(t, "isNative", FALSE, "rejected")
       [] h = "web" -> Return(t, "isNative", TRUE, "void")
       [] OTHER -> /\ tasks' = [tasks EXCEPT ![t].pc = "init_load"]
                   /\ ev' = NoEv
  /\ UNCHANGED <<registry, isInitialized, adsRemoved, currentBannerSlot, AdMob,
                 native, timers, extBanner, initIsTesting, opsLeft>>

initializeLoaded(t, ok) ==
  /\ tasks[t].pc = "init_load"
  /\ ok \in LoadOutcomes
  /\ AdMob' = (AdMob \/ ok)
  /\ IF ok
     THEN /\ tasks' = [tasks EXCEPT ![t].pc = "init_base"]
          /\ ev' = NoEv
     ELSE Return(t, "loadAdMob", FALSE, "rejected")
  /\ UNCHANGED <<registry, isInitialized, adsRemoved, currentBannerSlot,
                 coreLoaded, native, timers, extBanner, initIsTesting, opsLeft>>

\* initializeBase whose catch resets the flag: a rejected AdMob.initialize()
\* ends the run with isInitialized = false
initializeBaseResetsFlag(t, ok) ==
  /\ tasks[t].pc = "init_base"
  /\ IF ok
     THEN /\ tasks' = [tasks EXCEPT ![t].pc = "init_consentInfo", ![t].ok = ok]
          /\ ev' = NoEv
          /\ isInitialized' = isInitialized
     ELSE /\ Return(t, "initialize", FALSE, "void")
          /\ isInitialized' = FALSE
  /\ UNCHANGED <<registry, adsRemoved, currentBannerSlot, AdMob,
                 coreLoaded, native, timers, extBanner, initIsTesting, opsLeft>>

initializeBase(t, ok) ==
  /\ tasks[t].pc = "init_base"
  /\ IF ok
     THEN /\ tasks' = [tasks EXCEPT ![t].pc = "init_consentInfo", ![t].ok = ok]
          /\ ev' = NoEv
     ELSE Return(t, "initialize", FALSE, "void")
  /\ UNCHANGED <<registry, isInitialized, adsRemoved, currentBannerSlot, AdMob,
                 coreLoaded, native, timers, extBanner, initIsTesting, opsLeft>>

\* what `await AdMob.requestConsentInfo(...)` resolved with
ConsentInfo(formAvailable, status) ==
  [isConsentFormAvailable |-> formAvailable, status |-> status]

\* the two addListener calls and the assignment that follow the consent flow;
\* addListener is called without await, so it fails only by throwing
registerListeners(t, done, ok, lis) ==
  /\ tasks' = [tasks EXCEPT ![t] = IdleTask]
  /\ ev' = [EvOf(t, done, ok, "void") EXCEPT !.lis = lis]
  /\ IF lis = "ok"
     THEN /\ isInitialized' = TRUE
          /\ initIsTesting' = tasks[t].opt
     ELSE UNCHANGED <<isInitialized, initIsTesting>>

initializeConsentInfo(t, ok, formAvailable, status, lis) ==
  /\ tasks[t].pc = "init_consentInfo"
  /\ IF ok /\ formAvailable /\ status \in {"REQUIRED", "UNKNOWN"}
     THEN /\ tasks' = [tasks EXCEPT ![t].pc = "init_consentForm"]
          /\ ev' = [NoEv EXCEPT !.info = ConsentInfo(formAvailable, status)]
          /\ UNCHANGED <<isInitialized, initIsTesting>>
     ELSE registerListeners(t, "requestConsentInfo", ok, lis)
  /\ UNCHANGED <<registry, adsRemoved, currentBannerSlot, AdMob, coreLoaded,
                 native, timers, extBanner, opsLeft>>

\* initializeConsentForm without the inner try/catch: a rejected
\* showConsentForm ends the run in the outer catch
initializeConsentFormFatal(t, ok, lis) ==
  /\ tasks[t].pc = "init_consentForm"
  /\ IF ok
     THEN registerListeners(t, "showConsentForm", ok, lis)
     ELSE /\ Return(t, "showConsentForm", FALSE, "void")
          /\ UNCHANGED <<isInitialized, initIsTesting>>
  /\ UNCHANGED <<registry, adsRemoved, currentBannerSlot, AdMob, coreLoaded,
                 native, timers, extBanner, opsLeft>>

initializeConsentForm(t, ok, lis) ==
  /\ tasks[t].pc = "init_consentForm"
  /\ registerListeners(t, "showConsentForm", ok, lis)
  /\ UNCHANGED <<registry, adsRemoved, currentBannerSlot, AdMob, coreLoaded,
                 native, timers, extBanner, opsLeft>>

\* setAdsRemoved that only sets the flag and leaves the banner up
setAdsRemovedFlagOnly(removed) ==
  /\ opsLeft > 0
  /\ opsLeft' = opsLeft - 1
  /\ adsRemoved' = removed
  /\ tasks' = tasks
  /\ ev' = [NoEv EXCEPT !.op = "setAdsRemoved", !.ret = "void"]
  /\ UNCHANGED <<registry, isInitialized, currentBannerSlot, AdMob, coreLoaded,
                 native, timers, extBanner, initIsTesting>>

\* ---- setAdsRemoved (synchronous; hide() is called without await)
setAdsRemoved(removed) ==
  /\ opsLeft > 0
  /\ opsLeft' = opsLeft - 1
  /\ adsRemoved' = removed
  /\ IF removed /\ currentBannerSlot # NoSlot
     THEN /\ HasFree
          /\ tasks' = [tasks EXCEPT ![FreeTask] =
                         [IdleTask EXCEPT !.pc = "hide_isNative", !.op = "hide",
                                          !.slot = currentBannerSlot,
                                          !.by = "setAdsRemoved"]]
     ELSE tasks' = tasks
  /\ ev' = [NoEv EXCEPT !.op = "setAdsRemoved", !.ret = "void"]
  /\ UNCHANGED <<registry, isInitialized, currentBannerSlot, AdMob, coreLoaded,
                 native, timers, extBanner, initIsTesting>>

\* ---- shouldShowAds() is called: synchronous, returns a boolean
shouldShowAdsCall ==
  /\ opsLeft > 0
  /\ opsLeft' = opsLeft - 1
  /\ ev' = [NoEv EXCEPT !.op = "shouldShowAds",
                        !.ret = IF shouldShowAds THEN "true" ELSE "false"]
  /\ UNCHANGED <<registry, isInitialized, adsRemoved, currentBannerSlot, AdMob,
                 coreLoaded, native, tasks, timers, extBanner, initIsTesting>>

\* ---- the guard `!isInitialized.value || adsRemoved.value || !(await isNative())`
\* evaluated up to the await: TRUE when the function returns without awaiting
GateClosed == ~isInitialized \/ adsRemoved

\* ---- triggerInterstitial, entered synchronously from show() or trigger()
triggerInterstitialEnter(t, done) ==
  IF getSlot(tasks[t].slot).type # "interstitial"
  THEN Return(t, done, TRUE, "void")
  ELSE /\ tasks' = [tasks EXCEPT ![t].pc = "ti_load",
                                 ![t].cfg = getSlot(tasks[t].slot)]
       /\ ev' = NoEv

\* ---- triggerRewarded, entered synchronously from show() or trigger()
triggerRewardedEnter(t, done) ==
  IF GateClosed
  THEN Return(t, done, TRUE, "void")
  ELSE /\ tasks' = [tasks EXCEPT ![t].pc = "tr_isNative"]
       /\ ev' = NoEv

\* ---- show
show(slotId, globalTesting) ==
  /\ IF GateClosed
     THEN CallReturns("show", slotId, "void")
     ELSE Call("show", slotId, globalTesting, "show_isNative")
  /\ UNCHANGED <<registry, isInitialized, adsRemoved, currentBannerSlot, AdMob,
                 coreLoaded, native, timers, extBanner, initIsTesting>>

showNative(t, h) ==
  /\ tasks[t].pc = "show_isNative"
  /\ h \in HostOutcomes
  /\ coreLoaded' = (coreLoaded \/ h # "reject")
  /\ CASE h = "reject" -> Return(t, "isNative", FALSE, "rejected")
       [] h = "web" -> Return(t, "isNative", TRUE, "void")
       [] OTHER ->
            IF ~hasSlot(tasks[t].slot) THEN Return(t, "isNative", TRUE, "void")
            ELSE CASE getSlot(tasks[t].slot).type = "banner" ->
                        /\ tasks' = [tasks EXCEPT ![t].pc = "show_load",
                                                  ![t].cfg = getSlot(tasks[t].slot)]
                        /\ ev' = NoEv
                   [] getSlot(tasks[t].slot).type = "interstitial" ->
                        triggerInterstitialEnter(t, "isNative")
                   [] getSlot(tasks[t].slot).type = "rewarded" ->
                        triggerRewardedEnter(t, "isNative")
                   [] OTHER -> Return(t, "isNative", TRUE, "void")
  /\ UNCHANGED <<registry, isInitialized, adsRemoved, currentBannerSlot, AdMob,
                 native, timers, extBanner, initIsTesting, opsLeft>>

\* showLoaded that requests showBanner without hiding the current banner
showLoadedNoHide(t, ok) ==
  /\ tasks[t].pc = "show_load"
  /\ ok \in LoadOutcomes
  /\ AdMob' = (AdMob \/ ok)
  /\ IF ~ok THEN Return(t, "loadAdMob", FALSE, "rejected")
     ELSE /\ tasks' = [tasks EXCEPT
                         ![t].pc = "show_showBanner",
                         ![t].testing = resolveTesting(tasks[t].cfg, tasks[t].gt)]
          /\ ev' = NoEv
  /\ UNCHANGED <<registry, isInitialized, adsRemoved, currentBannerSlot,
                 coreLoaded, native, timers, extBanner, initIsTesting, opsLeft>>

\* resumes after `await loadAdMob()`, resolves the test flag and requests either
\* hideBanner (another banner slot is current) or showBanner
showLoaded(t, ok) ==
  /\ tasks[t].pc = "show_load"
  /\ ok \in LoadOutcomes
  /\ AdMob' = (AdMob \/ ok)
  /\ IF ~ok THEN Return(t, "loadAdMob", FALSE, "rejected")
     ELSE IF currentBannerSlot # NoSlot /\ currentBannerSlot # tasks[t].slot
     THEN /\ tasks' = [tasks EXCEPT
                         ![t].pc = "show_hideBanner", ![t].sawOther = TRUE,
                         ![t].testing = resolveTesting(tasks[t].cfg, tasks[t].gt)]
          /\ ev' = NoEv
     ELSE /\ tasks' = [tasks EXCEPT
                         ![t].pc = "show_showBanner",
                         ![t].testing = resolveTesting(tasks[t].cfg, tasks[t].gt)]
          /\ ev' = NoEv
  /\ UNCHANGED <<registry, isInitialized, adsRemoved, currentBannerSlot,
                 coreLoaded, native, timers, extBanner, initIsTesting, opsLeft>>

showHidden(t, ok) ==
  /\ tasks[t].pc = "show_hideBanner"
  /\ IF ok
     THEN /\ extBanner' = NoSlot
          /\ tasks' = [tasks EXCEPT ![t].pc = "show_showBanner", ![t].ok = ok]
          /\ ev' = NoEv
     ELSE /\ extBanner' = extBanner
          /\ Return(t, "hideBanner", FALSE, "void")
  /\ UNCHANGED <<registry, isInitialized, adsRemoved, currentBannerSlot, AdMob,
                 coreLoaded, native, timers, initIsTesting, opsLeft>>

showShown(t, ok) ==
  /\ tasks[t].pc = "show_showBanner"
  /\ IF ok
     THEN /\ extBanner' = tasks[t].slot
          /\ currentBannerSlot' = tasks[t].slot
     ELSE UNCHANGED <<extBanner, currentBannerSlot>>
  /\ Return(t, "showBanner", ok, "void")
  /\ UNCHANGED <<registry, isInitialized, adsRemoved, AdMob, coreLoaded, native,
                 timers, initIsTesting, opsLeft>>

\* ---- hide and remove
hide(slotId) ==
  /\ Call("hide", slotId, "undefined", "hide_isNative")
  /\ UNCHANGED <<registry, isInitialized, adsRemoved, currentBannerSlot, AdMob,
                 coreLoaded, native, timers, extBanner, initIsTesting>>

remove(slotId) ==
  /\ Call("remove", slotId, "undefined", "remove_isNative")
  /\ UNCHANGED <<registry, isInitialized, adsRemoved, currentBannerSlot, AdMob,
                 coreLoaded, native, timers, extBanner, initIsTesting>>

\* hide() after its awaits
hideNative(t, h) ==
  /\ tasks[t].pc = "hide_isNative"
  /\ h \in HostOutcomes
  /\ coreLoaded' = (coreLoaded \/ h # "reject")
  /\ CASE h = "reject" -> Return(t, "isNative", FALSE, "rejected")
       [] h = "web" -> Return(t, "isNative", TRUE, "void")
       [] OTHER ->
            IF currentBannerSlot # tasks[t].slot
            THEN Return(t, "isNative", TRUE, "void")
            ELSE /\ tasks' = [tasks EXCEPT ![t].pc = "hide_load"]
                 /\ ev' = NoEv
  /\ UNCHANGED <<registry, isInitialized, adsRemoved, currentBannerSlot, AdMob,
                 native, timers, extBanner, initIsTesting, opsLeft>>

hideLoaded(t, ok) ==
  /\ tasks[t].pc = "hide_load"
  /\ ok \in LoadOutcomes
  /\ AdMob' = (AdMob \/ ok)
  /\ IF ok
     THEN /\ tasks' = [tasks EXCEPT ![t].pc = "hide_request"]
          /\ ev' = NoEv
     ELSE Return(t, "loadAdMob", FALSE, "rejected")
  /\ UNCHANGED <<registry, isInitialized, adsRemoved, currentBannerSlot,
                 coreLoaded, native, timers, extBanner, initIsTesting, opsLeft>>

\* hideDone that clears currentBannerSlot whether or not hideBanner resolved
hideDoneAlwaysClears(t, ok) ==
  /\ tasks[t].pc = "hide_request"
  /\ extBanner' = IF ok THEN NoSlot ELSE extBanner
  /\ currentBannerSlot' = NoSlot
  /\ Return(t, "hideBanner", ok, "void")
  /\ UNCHANGED <<registry, isInitialized, adsRemoved, AdMob, coreLoaded, native,
                 timers, initIsTesting, opsLeft>>

hideDone(t, ok) ==
  /\ tasks[t].pc = "hide_request"
  /\ IF ok
     THEN /\ extBanner' = NoSlot
          /\ currentBannerSlot' = NoSlot
     ELSE UNCHANGED <<extBanner, currentBannerSlot>>
  /\ Return(t, "hideBanner", ok, "void")
  /\ UNCHANGED <<registry, isInitialized, adsRemoved, AdMob, coreLoaded, native,
                 timers, initIsTesting, opsLeft>>

\* remove() after its awaits
removeNative(t, h) ==
  /\ tasks[t].pc = "remove_isNative"
  /\ h \in HostOutcomes
  /\ coreLoaded' = (coreLoaded \/ h # "reject")
  /\ CASE h = "reject" -> Return(t, "isNative", FALSE, "rejected")
       [] h = "web" -> Return(t, "isNative", TRUE, "void")
       [] OTHER ->
            IF currentBannerSlot # tasks[t].slot
            THEN Return(t, "isNative", TRUE, "void")
            ELSE /\ tasks' = [tasks EXCEPT ![t].pc = "remove_load"]
                 /\ ev' = NoEv
  /\ UNCHANGED <<registry, isInitialized, adsRemoved, currentBannerSlot, AdMob,
                 native, timers, extBanner, initIsTesting, opsLeft>>

removeLoaded(t, ok) ==
  /\ tasks[t].pc = "remove_load"
  /\ ok \in LoadOutcomes
  /\ AdMob' = (AdMob \/ ok)
  /\ IF ok
     THEN /\ tasks' = [tasks EXCEPT ![t].pc = "remove_request"]
          /\ ev' = NoEv
     ELSE Return(t, "loadAdMob", FALSE, "rejected")
  /\ UNCHANGED <<registry, isInitialized, adsRemoved, currentBannerSlot,
                 coreLoaded, native, timers, extBanner, initIsTesting, opsLeft>>

removeDone(t, ok) ==
  /\ tasks[t].pc = "remove_request"
  /\ IF ok
     THEN /\ extBanner' = NoSlot
          /\ currentBannerSlot' = NoSlot
     ELSE UNCHANGED <<extBanner, currentBannerSlot>>
  /\ Return(t, "removeBanner", ok, "void")
  /\ UNCHANGED <<registry, isInitialized, adsRemoved, AdMob, coreLoaded, native,
                 timers, initIsTesting, opsLeft>>

\* ---- trigger
trigger(slotId, globalTesting) ==
  /\ IF GateClosed
     THEN CallReturns("trigger", slotId, "void")
     ELSE Call("trigger", slotId, globalTesting, "trigger_isNative")
  /\ UNCHANGED <<registry, isInitialized, adsRemoved, currentBannerSlot, AdMob,
                 coreLoaded, native, timers, extBanner, initIsTesting>>

\* triggerNative that renders a banner slot the way show() does
triggerNativeShowsBanner(t, h) ==
  /\ tasks[t].pc = "trigger_isNative"
  /\ h \in HostOutcomes
  /\ coreLoaded' = (coreLoaded \/ h # "reject")
  /\ CASE h = "reject" -> Return(t, "isNative", FALSE, "rejected")
       [] h = "web" -> Return(t, "isNative", TRUE, "void")
       [] OTHER ->
            IF ~hasSlot(tasks[t].slot) THEN Return(t, "isNative", TRUE, "void")
            ELSE CASE getSlot(tasks[t].slot).type = "interstitial" ->
                        triggerInterstitialEnter(t, "isNative")
                   [] getSlot(tasks[t].slot).type = "rewarded" ->
                        triggerRewardedEnter(t, "isNative")
                   [] getSlot(tasks[t].slot).type = "banner" ->
                        /\ tasks' = [tasks EXCEPT ![t].pc = "show_load",
                                                  ![t].cfg = getSlot(tasks[t].slot)]
                        /\ ev' = NoEv
                   [] OTHER -> Return(t, "isNative", TRUE, "void")
  /\ UNCHANGED <<registry, isInitialized, adsRemoved, currentBannerSlot, AdMob,
                 native, timers, extBanner, initIsTesting, opsLeft>>

triggerNative(t, h) ==
  /\ tasks[t].pc = "trigger_isNative"
  /\ h \in HostOutcomes
  /\ coreLoaded' = (coreLoaded \/ h # "reject")
  /\ CASE h = "reject" -> Return(t, "isNative", FALSE, "rejected")
       [] h = "web" -> Return(t, "isNative", TRUE, "void")
       [] OTHER ->
            IF ~hasSlot(tasks[t].slot) THEN Return(t, "isNative", TRUE, "void")
            ELSE CASE getSlot(tasks[t].slot).type = "interstitial" ->
                        triggerInterstitialEnter(t, "isNative")
                   [] getSlot(tasks[t].slot).type = "rewarded" ->
                        triggerRewardedEnter(t, "isNative")
                   [] OTHER -> Return(t, "isNative", TRUE, "void")
  /\ UNCHANGED <<registry, isInitialized, adsRemoved, currentBannerSlot, AdMob,
                 native, timers, extBanner, initIsTesting, opsLeft>>

\* ---- triggerInterstitial after its awaits
triggerInterstitialLoaded(t, ok) ==
  /\ tasks[t].pc = "ti_load"
  /\ ok \in LoadOutcomes
  /\ AdMob' = (AdMob \/ ok)
  /\ IF ok
     THEN /\ tasks' = [tasks EXCEPT
                         ![t].pc = "ti_prepare",
                         ![t].testing = resolveTesting(tasks[t].cfg, tasks[t].gt)]
          /\ ev' = NoEv
     ELSE Return(t, "loadAdMob", FALSE, "rejected")
  /\ UNCHANGED <<registry, isInitialized, adsRemoved, currentBannerSlot,
                 coreLoaded, native, timers, extBanner, initIsTesting, opsLeft>>

triggerInterstitialPrepared(t, ok) ==
  /\ tasks[t].pc = "ti_prepare"
  /\ IF ok
     THEN /\ tasks' = [tasks EXCEPT ![t].pc = "ti_show", ![t].ok = ok]
          /\ ev' = NoEv
     ELSE Return(t, "prepareInterstitial", FALSE, "void")
  /\ UNCHANGED <<registry, isInitialized, adsRemoved, currentBannerSlot, AdMob,
                 coreLoaded, native, timers, extBanner, initIsTesting, opsLeft>>

\* triggerInterstitialShown with the setTimeout after the try/catch: the
\* pre-load is scheduled whether or not showInterstitial resolved
triggerInterstitialShownAlwaysSchedules(t, ok) ==
  /\ tasks[t].pc = "ti_show"
  /\ BagCardinality(timers) < MaxTimers
  /\ timers' = timers (+) SetToBag({<<tasks[t].slot, tasks[t].gt>>})
  /\ Return(t, "showInterstitial", ok, "void")
  /\ UNCHANGED <<registry, isInitialized, adsRemoved, currentBannerSlot, AdMob,
                 coreLoaded, native, extBanner, initIsTesting, opsLeft>>

\* on success schedules setTimeout(() => prepareInterstitial(slotId, globalTesting))
triggerInterstitialShown(t, ok) ==
  /\ tasks[t].pc = "ti_show"
  /\ IF ok
     THEN /\ BagCardinality(timers) < MaxTimers
          /\ timers' = timers (+) SetToBag({<<tasks[t].slot, tasks[t].gt>>})
     ELSE timers' = timers
  /\ Return(t, "showInterstitial", ok, "void")
  /\ UNCHANGED <<registry, isInitialized, adsRemoved, currentBannerSlot, AdMob,
                 coreLoaded, native, extBanner, initIsTesting, opsLeft>>

\* ---- triggerRewarded
triggerRewarded(slotId, globalTesting) ==
  /\ IF GateClosed
     THEN CallReturns("triggerRewarded", slotId, "null")
     ELSE Call("triggerRewarded", slotId, globalTesting, "tr_isNative")
  /\ UNCHANGED <<registry, isInitialized, adsRemoved, currentBannerSlot, AdMob,
                 coreLoaded, native, timers, extBanner, initIsTesting>>

\* triggerRewardedNative without the check of the slot type
triggerRewardedNativeAnyType(t, h) ==
  /\ tasks[t].pc = "tr_isNative"
  /\ h \in HostOutcomes
  /\ coreLoaded' = (coreLoaded \/ h # "reject")
  /\ CASE h = "reject" -> Return(t, "isNative", FALSE, "rejected")
       [] h = "web" -> Return(t, "isNative", TRUE, RetOf(t, "null"))
       [] OTHER ->
            IF getSlot(tasks[t].slot).type \notin SlotTypes
            THEN Return(t, "isNative", TRUE, RetOf(t, "null"))
            ELSE /\ tasks' = [tasks EXCEPT ![t].pc = "tr_load",
                                           ![t].cfg = getSlot(tasks[t].slot)]
                 /\ ev' = NoEv
  /\ UNCHANGED <<registry, isInitialized, adsRemoved, currentBannerSlot, AdMob,
                 native, timers, extBanner, initIsTesting, opsLeft>>

triggerRewardedNative(t, h) ==
  /\ tasks[t].pc = "tr_isNative"
  /\ h \in HostOutcomes
  /\ coreLoaded' = (coreLoaded \/ h # "reject")
  /\ CASE h = "reject" -> Return(t, "isNative", FALSE, "rejected")
       [] h = "web" -> Return(t, "isNative", TRUE, RetOf(t, "null"))
       [] OTHER ->
            IF getSlot(tasks[t].slot).type # "rewarded"
            THEN Return(t, "isNative", TRUE, RetOf(t, "null"))
            ELSE /\ tasks' = [tasks EXCEPT ![t].pc = "tr_load",
                                           ![t].cfg = getSlot(tasks[t].slot)]
                 /\ ev' = NoEv
  /\ UNCHANGED <<registry, isInitialized, adsRemoved, currentBannerSlot, AdMob,
                 native, timers, extBanner, initIsTesting, opsLeft>>

triggerRewardedLoaded(t, ok) ==
  /\ tasks[t].pc = "tr_load"
  /\ ok \in LoadOutcomes
  /\ AdMob' = (AdMob \/ ok)
  /\ IF ok
     THEN /\ tasks' = [tasks EXCEPT
                         ![t].pc = "tr_prepare",
                         ![t].testing = resolveTesting(tasks[t].cfg, tasks[t].gt)]
          /\ ev' = NoEv
     ELSE Return(t, "loadAdMob", FALSE, "rejected")
  /\ UNCHANGED <<registry, isInitialized, adsRemoved, currentBannerSlot,
                 coreLoaded, native, timers, extBanner, initIsTesting, opsLeft>>

triggerRewardedPrepared(t, ok) ==
  /\ tasks[t].pc = "tr_prepare"
  /\ IF ok
     THEN /\ tasks' = [tasks EXCEPT ![t].pc = "tr_show", ![t].ok = ok]
          /\ ev' = NoEv
     ELSE Return(t, "prepareRewardVideoAd", FALSE, RetOf(t, "null"))
  /\ UNCHANGED <<registry, isInitialized, adsRemoved, currentBannerSlot, AdMob,
                 coreLoaded, native, timers, extBanner, initIsTesting, opsLeft>>

triggerRewardedShown(t, ok) ==
  /\ tasks[t].pc = "tr_show"
  /\ Return(t, "showRewardVideoAd", ok, RetOf(t, IF ok THEN "reward" ELSE "null"))
  /\ UNCHANGED <<registry, isInitialized, adsRemoved, currentBannerSlot, AdMob,
                 coreLoaded, native, timers, extBanner, initIsTesting, opsLeft>>

\* ---- prepareInterstitial: behind prepareInterstitialSlot() and the timer
prepareInterstitialSlot(slotId, globalTesting) ==
  /\ IF GateClosed
     THEN CallReturns("prepareInterstitialSlot", slotId, "void")
     ELSE Call("prepareInterstitialSlot", slotId, globalTesting, "pi_isNative")
  /\ UNCHANGED <<registry, isInitialized, adsRemoved, currentBannerSlot, AdMob,
                 coreLoaded, native, timers, extBanner, initIsTesting>>

\* the setTimeout callback of triggerInterstitial runs
preloadTimer(tm) ==
  /\ BagIn(tm, timers)
  /\ timers' = timers (-) SetToBag({tm})
  /\ IF GateClosed
     THEN /\ tasks' = tasks
          /\ ev' = [NoEv EXCEPT !.op = "preload", !.slot = tm[1], !.ret = "void"]
     ELSE /\ HasFree
          /\ tasks' = [tasks EXCEPT ![FreeTask] =
                         [IdleTask EXCEPT !.pc = "pi_isNative", !.op = "preload",
                                          !.slot = tm[1], !.gt = tm[2],
                                          !.by = "timer"]]
          /\ ev' = NoEv
  /\ UNCHANGED <<registry, isInitialized, adsRemoved, currentBannerSlot, AdMob,
                 coreLoaded, native, extBanner, initIsTesting, opsLeft>>

prepareInterstitialNative(t, h) ==
  /\ tasks[t].pc = "pi_isNative"
  /\ h \in HostOutcomes
  /\ coreLoaded' = (coreLoaded \/ h # "reject")
  /\ CASE h = "reject" -> Return(t, "isNative", FALSE, "rejected")
       [] h = "web" -> Return(t, "isNative", TRUE, "void")
       [] OTHER ->
            IF getSlot(tasks[t].slot).type # "interstitial"
            THEN Return(t, "isNative", TRUE, "void")
            ELSE /\ tasks' = [tasks EXCEPT ![t].pc = "pi_load",
                                           ![t].cfg = getSlot(tasks[t].slot)]
                 /\ ev' = NoEv
  /\ UNCHANGED <<registry, isInitialized, adsRemoved, currentBannerSlot, AdMob,
                 native, timers, extBanner, initIsTesting, opsLeft>>

prepareInterstitialLoaded(t, ok) ==
  /\ tasks[t].pc = "pi_load"
  /\ ok \in LoadOutcomes
  /\ AdMob' = (AdMob \/ ok)
  /\ IF ok
     THEN /\ tasks' = [tasks EXCEPT
                         ![t].pc = "pi_prepare",
                         ![t].testing = resolveTesting(tasks[t].cfg, tasks[t].gt)]
          /\ ev' = NoEv
     ELSE Return(t, "loadAdMob", FALSE, "rejected")
  /\ UNCHANGED <<registry, isInitialized, adsRemoved, currentBannerSlot,
                 coreLoaded, native, timers, extBanner, initIsTesting, opsLeft>>

prepareInterstitialDone(t, ok) ==
  /\ tasks[t].pc = "pi_prepare"
  /\ Return(t, "prepareInterstitial", ok, "void")
  /\ UNCHANGED <<registry, isInitialized, adsRemoved, currentBannerSlot, AdMob,
                 coreLoaded, native, timers, extBanner, initIsTesting, opsLeft>>

Hosts == {"native", "web", "reject"}
ListenerOutcomes == {"ok", "throw"}

Next ==
  \/ \E m \in SlotMaps : defineSlots(m)
  \/ initialize("undefined")
  \/ \E t \in Tasks, h \in Hosts : initializeNative(t, h)
  \/ \E t \in Tasks, ok \in BOOLEAN : initializeLoaded(t, ok)
  \/ \E t \in Tasks, ok \in BOOLEAN : initializeBase(t, ok)
  \/ \E t \in Tasks, ok \in BOOLEAN, fa \in BOOLEAN, st \in ConsentStatuses,
        l \in ListenerOutcomes : initializeConsentInfo(t, ok, fa, st, l)
  \/ \E t \in Tasks, ok \in BOOLEAN, l \in ListenerOutcomes :
        initializeConsentForm(t, ok, l)
  \/ \E r \in BOOLEAN : setAdsRemoved(r)
  \/ shouldShowAdsCall
  \/ \E id \in SlotArgs, g \in Tri : show(id, g)
  \/ \E t \in Tasks, h \in Hosts : showNative(t, h)
  \/ \E t \in Tasks, ok \in BOOLEAN : showLoaded(t, ok)
  \/ \E t \in Tasks, ok \in BOOLEAN : showHidden(t, ok)
  \/ \E t \in Tasks, ok \in BOOLEAN : showShown(t, ok)
  \/ \E id \in SlotArgs : hide(id)
  \/ \E t \in Tasks, h \in Hosts : hideNative(t, h)
  \/ \E t \in Tasks, ok \in BOOLEAN : hideLoaded(t, ok)
  \/ \E t \in Tasks, ok \in BOOLEAN : hideDone(t, ok)
  \/ \E id \in SlotArgs : remove(id)
  \/ \E t \in Tasks, h \in Hosts : removeNative(t, h)
  \/ \E t \in Tasks, ok \in BOOLEAN : removeLoaded(t, ok)
  \/ \E t \in Tasks, ok \in BOOLEAN : removeDone(t, ok)
  \/ \E id \in SlotArgs, g \in Tri : trigger(id, g)
  \/ \E t \in Tasks, h \in Hosts : triggerNative(t, h)
  \/ \E t \in Tasks, ok \in BOOLEAN : triggerInterstitialLoaded(t, ok)
  \/ \E t \in Tasks, ok \in BOOLEAN : triggerInterstitialPrepared(t, ok)
  \/ \E t \in Tasks, ok \in BOOLEAN : triggerInterstitialShown(t, ok)
  \/ \E id \in SlotArgs, g \in Tri : triggerRewarded(id, g)
  \/ \E t \in Tasks, h \in Hosts : triggerRewardedNative(t, h)
  \/ \E t \in Tasks, ok \in BOOLEAN : triggerRewardedLoaded(t, ok)
  \/ \E t \in Tasks, ok \in BOOLEAN : triggerRewardedPrepared(t, ok)
  \/ \E t \in Tasks, ok \in BOOLEAN : triggerRewardedShown(t, ok)
  \/ \E id \in SlotArgs, g \in Tri : prepareInterstitialSlot(id, g)
  \/ \E tm \in SlotArgs \X Tri : preloadTimer(tm)
  \/ \E t \in Tasks, h \in Hosts : prepareInterstitialNative(t, h)
  \/ \E t \in Tasks, ok \in BOOLEAN : prepareInterstitialLoaded(t, ok)
  \/ \E t \in Tasks, ok \in BOOLEAN : prepareInterstitialDone(t, ok)

Spec == Init /\ [][Next]_vars

\* ---- sequential use: the application awaits every call before the next one
\* no call is pending
Quiet == \A t \in Tasks : tasks[t].pc = "idle"

SeqNext ==
  \/ \E m \in SlotMaps : defineSlots(m)
  \/ Quiet /\ initialize("undefined")
  \/ \E t \in Tasks, h \in Hosts : initializeNative(t, h)
  \/ \E t \in Tasks, ok \in BOOLEAN : initializeLoaded(t, ok)
  \/ \E t \in Tasks, ok \in BOOLEAN : initializeBase(t, ok)
  \/ \E t \in Tasks, ok \in BOOLEAN, fa \in BOOLEAN, st \in ConsentStatuses,
        l \in ListenerOutcomes : initializeConsentInfo(t, ok, fa, st, l)
  \/ \E t \in Tasks, ok \in BOOLEAN, l \in ListenerOutcomes :
        initializeConsentForm(t, ok, l)
  \/ \E r \in BOOLEAN : Quiet /\ setAdsRemoved(r)
  \/ shouldShowAdsCall
  \/ \E id \in SlotArgs, g \in Tri : Quiet /\ show(id, g)
  \/ \E t \in Tasks, h \in Hosts : showNative(t, h)
  \/ \E t \in Tasks, ok \in BOOLEAN : showLoaded(t, ok)
  \/ \E t \in Tasks, ok \in BOOLEAN : showHidden(t, ok)
  \/ \E t \in Tasks, ok \in BOOLEAN : showShown(t, ok)
  \/ \E id \in SlotArgs : Quiet /\ hide(id)
  \/ \E t \in Tasks, h \in Hosts : hideNative(t, h)
  \/ \E t \in Tasks, ok \in BOOLEAN : hideLoaded(t, ok)
  \/ \E t \in Tasks, ok \in BOOLEAN : hideDone(t, ok)
  \/ \E id \in SlotArgs : Quiet /\ remove(id)
  \/ \E t \in Tasks, h \in Hosts : removeNative(t, h)
  \/ \E t \in Tasks, ok \in BOOLEAN : removeLoaded(t, ok)
  \/ \E t \in Tasks, ok \in BOOLEAN : removeDone(t, ok)
  \/ \E id \in SlotArgs, g \in Tri : Quiet /\ trigger(id, g)
  \/ \E t \in Tasks, h \in Hosts : triggerNative(t, h)
  \/ \E t \in Tasks, ok \in BOOLEAN : triggerInterstitialLoaded(t, ok)
  \/ \E t \in Tasks, ok \in BOOLEAN : triggerInterstitialPrepared(t, ok)
  \/ \E t \in Tasks, ok \in BOOLEAN : triggerInterstitialShown(t, ok)
  \/ \E id \in SlotArgs, g \in Tri : Quiet /\ triggerRewarded(id, g)
  \/ \E t \in Tasks, h \in Hosts : triggerRewardedNative(t, h)
  \/ \E t \in Tasks, ok \in BOOLEAN : triggerRewardedLoaded(t, ok)
  \/ \E t \in Tasks, ok \in BOOLEAN : triggerRewardedPrepared(t, ok)
  \/ \E t \in Tasks, ok \in BOOLEAN : triggerRewardedShown(t, ok)
  \/ \E id \in SlotArgs, g \in Tri : Quiet /\ prepareInterstitialSlot(id, g)
  \/ \E tm \in SlotArgs \X Tri : preloadTimer(tm)
  \/ \E t \in Tasks, h \in Hosts : prepareInterstitialNative(t, h)
  \/ \E t \in Tasks, ok \in BOOLEAN : prepareInterstitialLoaded(t, ok)
  \/ \E t \in Tasks, ok \in BOOLEAN : prepareInterstitialDone(t, ok)

SeqSpec == Init /\ [][SeqNext]_vars

\* ---- banner-only use: two banner slots, initialize with or without
\* options.isTesting, show, hide and remove
BannerMaps == {m \in SlotMaps : \A id \in DOMAIN m : m[id].type = "banner"}

BannerInit == Constructed /\ opsLeft = MaxBannerOps

BannerNext ==
  \/ \E m \in BannerMaps : defineSlots(m)
  \/ \E o \in {"undefined", "true"} : initialize(o)
  \/ \E t \in Tasks, h \in Hosts : initializeNative(t, h)
  \/ \E t \in Tasks, ok \in BOOLEAN : initializeLoaded(t, ok)
  \/ \E t \in Tasks, ok \in BOOLEAN : initializeBase(t, ok)
  \/ \E t \in Tasks, ok \in BOOLEAN, fa \in BOOLEAN, st \in ConsentStatuses,
        l \in ListenerOutcomes : initializeConsentInfo(t, ok, fa, st, l)
  \/ \E t \in Tasks, ok \in BOOLEAN, l \in ListenerOutcomes :
        initializeConsentForm(t, ok, l)
  \/ \E id \in SlotArgs : show(id, "undefined")
  \/ \E t \in Tasks, h \in Hosts : showNative(t, h)
  \/ \E t \in Tasks, ok \in BOOLEAN : showLoaded(t, ok)
  \/ \E t \in Tasks, ok \in BOOLEAN : showHidden(t, ok)
  \/ \E t \in Tasks, ok \in BOOLEAN : showShown(t, ok)
  \/ \E id \in SlotArgs : hide(id)
  \/ \E t \in Tasks, h \in Hosts : hideNative(t, h)
  \/ \E t \in Tasks, ok \in BOOLEAN : hideLoaded(t, ok)
  \/ \E t \in Tasks, ok \in BOOLEAN : hideDone(t, ok)
  \/ \E id \in SlotArgs : remove(id)
  \/ \E t \in Tasks, h \in Hosts : removeNative(t, h)
  \/ \E t \in Tasks, ok \in BOOLEAN : removeLoaded(t, ok)
  \/ \E t \in Tasks, ok \in BOOLEAN : removeDone(t, ok)

BannerSpec == BannerInit /\ [][BannerNext]_vars

\* ---- the registry on its own: any ids, redefinitions, single and bulk calls
RegConfigs ==
  { [type |-> "banner", isTesting |-> "undefined"],
    [type |-> "banner", isTesting |-> "true"],
    [type |-> "interstitial", isTesting |-> "false"] }

RegMaps == UNION {[S -> RegConfigs] : S \in SUBSET Ids \ {{}}}

RegNext ==
  \/ \E m \in RegMaps : defineSlots(m)
  \/ \E id \in Ids, config \in RegConfigs : defineSlot(id, config)

RegSpec == Init /\ [][RegNext]_vars

\* ------------------------------------------------------------ properties
\* task t sends the request whose await is pc in this step
Issues(t, pc) == tasks[t].pc # pc /\ tasks'[t].pc = pc

\* task t returns to its caller in this step
Returns(t) == tasks[t].pc # "idle" /\ tasks'[t].pc = "idle"

\* C1: at most one banner slot is visible at a time.  No showBanner request
\* for a slot is sent while the plugin displays the banner of another slot,
\* and no two showBanner requests are in flight together, whatever the
\* interleaving of show() calls.
OneBannerAtATime ==
  /\ [](Cardinality({t \in Tasks : tasks[t].pc = "show_showBanner"}) <= 1)
  /\ [][\A t \in Tasks :
          Issues(t, "show_showBanner") => extBanner \in {NoSlot, tasks[t].slot}]_vars

\* C2: while adsRemoved is true no showBanner, showInterstitial or
\* showRewardVideoAd request is sent and currentBannerSlot is not set to a
\* slot id, also when setAdsRemoved(true) runs while another call is suspended.
NoAdWhileRemoved ==
  [][/\ \A t \in Tasks :
          \/ Issues(t, "show_showBanner")
          \/ Issues(t, "ti_show")
          \/ Issues(t, "tr_show")
          => ~adsRemoved'
     /\ (currentBannerSlot' # currentBannerSlot /\ currentBannerSlot' # NoSlot)
          => ~adsRemoved']_vars

\* C3: show(S) called while another banner slot T is current first sends
\* hideBanner and awaits it; showBanner for S is sent only when that hide has
\* resolved (or when no other slot was current), and a show whose showBanner
\* resolved leaves currentBannerSlot = S.
HidePrecedesShow ==
  [][\A t \in Tasks :
       /\ (/\ tasks[t].pc = "show_load"
           /\ tasks'[t] # tasks[t]
           /\ currentBannerSlot \notin {NoSlot, tasks[t].slot})
            => tasks'[t].pc = "show_hideBanner"
       /\ Issues(t, "show_showBanner")
            => \/ /\ tasks[t].pc = "show_load"
                  /\ currentBannerSlot \in {NoSlot, tasks[t].slot}
               \/ /\ tasks[t].pc = "show_hideBanner"
                  /\ tasks'[t].ok
                  /\ extBanner' = NoSlot
       /\ (tasks[t].pc = "show_showBanner" /\ Returns(t) /\ ev'.ok)
            => currentBannerSlot' = tasks[t].slot]_vars

\* a show() that found another slot current has had its hideBanner resolved
\* and is now awaiting showBanner
HidePrecedesShowWitness ==
  \E t \in Tasks :
    /\ tasks[t].pc = "show_showBanner"
    /\ tasks[t].sawOther
    /\ currentBannerSlot \notin {NoSlot, tasks[t].slot}

\* C4: setAdsRemoved(true) with banner slot S current calls hide(S) at once;
\* that hide sends hideBanner provided S is still current when it resumes from
\* host detection, it never rejects, and when hideBanner resolves
\* currentBannerSlot becomes null.
RemovedAdsHideBanner ==
  [][/\ (/\ ev'.op = "setAdsRemoved"
         /\ opsLeft' # opsLeft
         /\ adsRemoved'
         /\ currentBannerSlot # NoSlot)
          => \E t \in Tasks :
               /\ tasks[t].pc = "idle"
               /\ tasks'[t].pc = "hide_isNative"
               /\ tasks'[t].op = "hide"
               /\ tasks'[t].slot = currentBannerSlot
     /\ \A t \in Tasks :
          (tasks[t].by = "setAdsRemoved" /\ tasks'[t] # tasks[t])
            => /\ tasks[t].pc = "hide_isNative"
                    => IF currentBannerSlot = tasks[t].slot
                       THEN tasks'[t].pc = "hide_load"
                       ELSE Returns(t) /\ ev'.ret = "void"
               /\ tasks[t].pc = "hide_load" => tasks'[t].pc = "hide_request"
               /\ (tasks[t].pc = "hide_request" /\ ev'.ok)
                    => currentBannerSlot' = NoSlot]_vars

\* the hide() started by setAdsRemoved(true) has had its hideBanner resolved
RemovedAdsHideBannerWitness ==
  /\ ev.op = "hide"
  /\ ev.by = "setAdsRemoved"
  /\ ev.done = "hideBanner"
  /\ ev.ok
  /\ adsRemoved
  /\ currentBannerSlot = NoSlot

\* C5: no public operation ends in a rejected promise, whichever external
\* call fails.
NoRejection == ev.ret # "rejected"

\* C6: an initialize() run whose base initialization or listener registration
\* failed completes with initialized = false, whatever the state before it.
InitFailureLeavesUninitialized ==
  (/\ ev.op = "initialize"
   /\ \/ ev.done = "initialize" /\ ~ev.ok
      \/ ev.lis = "throw")
    => ~isInitialized

\* the awaits at which a request carrying a testing flag is in flight
FlagRequests == {"show_showBanner", "ti_prepare", "tr_prepare", "pi_prepare"}

InitIsTestingIsGlobal ==
  [][\A t \in Tasks :
       (/\ \E pc \in FlagRequests : Issues(t, pc)
        /\ tasks'[t].gt = "undefined"
        /\ initIsTesting = "true")
         => tasks'[t].testing]_vars

\* C9: trigger(S) on a banner slot sends no request and changes no flag: the
\* call only awaits host detection, and when it resumes and finds S of type
\* banner it returns with every flag, the plugin and every other call as
\* they were.
TriggerOnBannerDoesNothing ==
  [][\A t \in Tasks :
       /\ (tasks[t].pc = "idle" /\ tasks'[t].op = "trigger")
            => tasks'[t].pc = "trigger_isNative" /\ UNCHANGED <<flags, extBanner, timers>>
       /\ (/\ tasks[t].op = "trigger"
           /\ tasks[t].pc = "trigger_isNative"
           /\ tasks'[t] # tasks[t]
           /\ getSlot(tasks[t].slot).type = "banner")
            => /\ tasks'[t] = IdleTask
               /\ ev'.ret = "void"
               /\ \A u \in Tasks \ {t} : tasks'[u] = tasks[u]
               /\ UNCHANGED <<flags, extBanner, timers>>]_vars

\* trigger() has returned after finding its slot registered with type banner
TriggerOnBannerDoesNothingWitness ==
  /\ ev.op = "trigger"
  /\ ev.done = "isNative"
  /\ ev.ret = "void"
  /\ native
  /\ ev.slot \in DOMAIN registry
  /\ registry[ev.slot].type = "banner"

\* C10: triggerRewarded(id) returns null without sending a request when the
\* service is not initialized, ads are removed, the host is not native, id is
\* not defined or its slot is not rewarded; it returns a reward only when
\* prepareRewardVideoAd and then showRewardVideoAd both resolved.
RewardedGating ==
  [][/\ (ev'.op = "triggerRewarded" /\ opsLeft' # opsLeft /\ ev'.done = "none")
          => /\ ev'.ret = "null"
             /\ UNCHANGED <<tasks, flags, extBanner, timers>>
     /\ \A t \in Tasks :
          /\ (tasks[t].pc = "idle" /\ tasks'[t].op = "triggerRewarded")
               => /\ isInitialized /\ ~adsRemoved
                  /\ tasks'[t].pc = "tr_isNative"
          /\ (/\ tasks[t].op = "triggerRewarded"
              /\ tasks[t].pc = "tr_isNative"
              /\ tasks'[t] # tasks[t]
              /\ (~native \/ getSlot(tasks[t].slot).type # "rewarded"))
               => /\ tasks'[t] = IdleTask
                  /\ ev'.ret = "null"
                  /\ \A u \in Tasks \ {t} : tasks'[u] = tasks[u]
          /\ (tasks[t].op = "triggerRewarded" /\ Returns(t) /\ ev'.ret = "reward")
               => /\ tasks[t].pc = "tr_show"
                  /\ tasks[t].ok
                  /\ ev'.done = "showRewardVideoAd"
                  /\ ev'.ok]_vars

\* triggerRewarded() has returned null for an id that was never defined
RewardedGatingWitness ==
  /\ ev.op = "triggerRewarded"
  /\ ev.done = "isNative"
  /\ ev.ret = "null"
  /\ isInitialized
  /\ ~adsRemoved
  /\ ~hasSlot(ev.slot)

\* the awaits of host detection, one per async function
HostAwaits == {"init_isNative", "show_isNative", "hide_isNative",
               "remove_isNative", "trigger_isNative", "tr_isNative",
               "pi_isNative"}

\* C11: on a host that is not native every ad operation is a no-op.  No call
\* gets past host detection, so none loads the plugin or sends it a request;
\* a call that resumes from host detection returns at once; initialized stays
\* false, currentBannerSlot stays null and no timer is scheduled.
NonNativeIsNoOp ==
  [][~native =>
       /\ UNCHANGED <<isInitialized, currentBannerSlot, extBanner, timers, AdMob>>
       /\ ~isInitialized'
       /\ \A t \in Tasks :
            /\ tasks'[t].pc \in {"idle"} \cup HostAwaits
            /\ (tasks[t].pc \in HostAwaits /\ tasks'[t] # tasks[t])
                 => tasks'[t] = IdleTask]_vars

\* initialize() has returned on a host that is not native
NonNativeIsNoOpWitness ==
  /\ ~native
  /\ ev.op = "initialize"
  /\ ev.done = "isNative"
  /\ ev.ok
  /\ ev.ret = "void"
  /\ ~isInitialized
  /\ ~AdMob

\* C12: last write wins.  After a defineSlot/defineSlots call getSlot(A) is
\* exactly the configuration the call gave for A, whatever A was defined as
\* before, and for every id the call does not name getSlot is what it was.
LastWriteWins ==
  [][\A id \in Ids :
       IF id \in DOMAIN ev'.arg
       THEN getSlot(id)' = ev'.arg[id]
       ELSE getSlot(id)' = getSlot(id)]_vars

\* a slot that had a testing flag was redefined by defineSlot without one,
\* while another id is registered
LastWriteWinsWitness ==
  /\ ev.op = "defineSlot"
  /\ ev.redef
  /\ \E id \in DOMAIN ev.arg :
       /\ ev.arg[id].isTesting = "undefined"
       /\ getSlot(id) = ev.arg[id]
       /\ \E other \in getSlotIds : other # id

\* C13: hasSlot(A) is true exactly when A was defined by a defineSlot or
\* defineSlots call, that is when A is among getSlotIds(), also for ids that
\* name a built-in property such as "constructor".
HasSlotIffDefined == \A id \in Ids : hasSlot(id) <=> id \in getSlotIds

\* C14: shouldShowAds() returns true exactly when initialized is true and
\* adsRemoved is false, and the call changes no flag, no pending call and no
\* timer and sends the plugin nothing.
ShouldShowAdsIsPure ==
  [][ev'.op = "shouldShowAds" =>
       /\ ev'.ret = IF isInitialized /\ ~adsRemoved THEN "true" ELSE "false"
       /\ UNCHANGED <<registry, flags, AdMob, tasks, timers, extBanner>>]_vars

\* shouldShowAds() returned false on an initialized service with ads removed
ShouldShowAdsIsPureWitness ==
  /\ ev.op = "shouldShowAds"
  /\ ev.ret = "false"
  /\ isInitialized
  /\ adsRemoved

\* the operations that drive the banner
BannerOps == {"show", "hide", "remove"}

\* C15: a rejected hideBanner, showBanner or removeBanner request of show(),
\* hide() or remove() leaves initialized, adsRemoved and currentBannerSlot as
\* they were, as does every earlier step of the call.  currentBannerSlot is
\* set to a slot id only by the show() of that slot whose showBanner resolved,
\* and cleared only by a hide() or remove() whose request resolved.
FailureLeavesFlags ==
  [][/\ \A t \in Tasks :
          (/\ tasks[t].op \in BannerOps
           /\ tasks'[t] # tasks[t]
           /\ ~(Returns(t) /\ ev'.ok /\ ev'.done \in {"showBanner", "hideBanner",
                                                      "removeBanner"}))
            => UNCHANGED flags
     /\ (currentBannerSlot' # currentBannerSlot /\ currentBannerSlot' # NoSlot)
          => \E t \in Tasks :
               /\ tasks[t].pc = "show_showBanner"
               /\ Returns(t)
               /\ ev'.done = "showBanner" /\ ev'.ok
               /\ currentBannerSlot' = tasks[t].slot
     /\ (currentBannerSlot' # currentBannerSlot /\ currentBannerSlot' = NoSlot)
          => \E t \in Tasks :
               /\ tasks[t].pc \in {"hide_request", "remove_request"}
               /\ Returns(t)
               /\ ev'.done \in {"hideBanner", "removeBanner"} /\ ev'.ok]_vars

\* hide() of the current banner has returned after hideBanner rejected
FailureLeavesFlagsWitness ==
  /\ ev.op = "hide"
  /\ ev.done = "hideBanner"
  /\ ~ev.ok
  /\ currentBannerSlot = ev.slot
  /\ extBanner = ev.slot

\* C16: the consent step never prevents initialization.  An initialize() run
\* whose base initialization resolved goes on to register its listeners
\* whether requestConsentInfo or showConsentForm resolved or rejected, and
\* ends with initialized = true when the registration succeeded;
\* showConsentForm is requested only on consent information with a form
\* available and status REQUIRED or UNKNOWN.
ConsentNeverBlocksInit ==
  [][\A t \in Tasks :
       /\ Issues(t, "init_consentForm")
            => /\ tasks[t].pc = "init_consentInfo"
               /\ ev'.info.isConsentFormAvailable
               /\ ev'.info.status \in {"REQUIRED", "UNKNOWN"}
       /\ (tasks[t].pc \in {"init_consentInfo", "init_consentForm"} /\ Returns(t))
            => /\ tasks[t].ok
               /\ ev'.ret = "void"
               /\ ev'.lis \in ListenerOutcomes
               /\ ev'.lis = "ok" => isInitialized'
               /\ ev'.lis = "throw" => isInitialized' = isInitialized]_vars

\* the first initialize() ended initialized although showConsentForm rejected
ConsentNeverBlocksInitWitness ==
  /\ ev.op = "initialize"
  /\ ev.done = "showConsentForm"
  /\ ~ev.ok
  /\ ev.lis = "ok"
  /\ isInitialized
  /\ opsLeft = MaxOps - 1

\* C17: in triggerInterstitial, showInterstitial is requested only when
\* prepareInterstitial has resolved.  The pre-load timer is scheduled only in
\* the step in which showInterstitial resolved, which is also the step in
\* which the call returns; no other step of the call schedules one.  When the
\* timer fires, a pre-load starts if initialized is true and adsRemoved is
\* false at that moment, and nothing happens otherwise.  No step of a
\* pre-load changes a flag, the banner, a timer or another call, and it
\* returns void whether its prepareInterstitial resolved or rejected.
InterstitialOrder ==
  [][/\ \A t \in Tasks :
          /\ Issues(t, "ti_prepare") => tasks[t].pc = "ti_load"
          /\ Issues(t, "ti_show") => tasks[t].pc = "ti_prepare" /\ tasks'[t].ok
          /\ (/\ tasks[t].pc \in {"ti_load", "ti_prepare", "ti_show"}
              /\ tasks'[t] # tasks[t]
              /\ ~(tasks[t].pc = "ti_show" /\ ev'.ok))
               => timers' = timers
          /\ (tasks[t].by = "timer" /\ tasks'[t] # tasks[t])
               => /\ UNCHANGED <<flags, extBanner, timers>>
                  /\ \A u \in Tasks \ {t} : tasks'[u] = tasks[u]
                  /\ Returns(t) => ev'.op = "preload" /\ ev'.ret = "void"
     /\ BagCardinality(timers') > BagCardinality(timers)
          => \E t \in Tasks :
               /\ tasks[t].pc = "ti_show"
               /\ Returns(t)
               /\ ev'.done = "showInterstitial" /\ ev'.ok
               /\ timers' = timers (+) SetToBag({<<tasks[t].slot, tasks[t].gt>>})
     /\ BagCardinality(timers') < BagCardinality(timers)
          => /\ UNCHANGED <<flags, extBanner>>
             /\ IF isInitialized /\ ~adsRemoved
                THEN \E t \in Tasks :
                       /\ tasks[t].pc = "idle"
                       /\ tasks'[t].pc = "pi_isNative"
                       /\ tasks'[t].by = "timer"
                       /\ BagIn(<<tasks'[t].slot, tasks'[t].gt>>, timers)
                       /\ \A u \in Tasks \ {t} : tasks'[u] = tasks[u]
                ELSE tasks' = tasks]_vars

\* the pre-load started by the timer has returned after its
\* prepareInterstitial rejected
InterstitialOrderWitness ==
  /\ ev.op = "preload"
  /\ ev.by = "timer"
  /\ ev.done = "prepareInterstitial"
  /\ ~ev.ok
  /\ isInitialized

\* C18: currentBannerSlot is null or the id of a slot that is registered with
\* type banner, whatever definitions, redefinitions and service calls ran.
CurrentBannerIsBannerSlot ==
  currentBannerSlot # NoSlot
    => /\ currentBannerSlot \in getSlotIds
       /\ getSlot(currentBannerSlot).type = "banner"

\* C19: in sequential use, whenever no call is pending, currentBannerSlot is
\* the banner the plugin displays: the slot whose showBanner resolved last
\* and that no resolved hideBanner or removeBanner has taken down since, or
\* null when there is none.
BannerAgreesWithPlugin == Quiet => currentBannerSlot = extBanner

\* C20: a hide(S) or remove(S) that completes while another slot T is current
\* (a show(T) resolved while the call awaited its request) leaves
\* currentBannerSlot = T.
HideKeepsOtherSlot ==
  [][\A t \in Tasks :
       (/\ tasks[t].op \in {"hide", "remove"}
        /\ Returns(t)
        /\ currentBannerSlot \notin {NoSlot, tasks[t].slot})
         => currentBannerSlot' = currentBannerSlot]_vars

\* C21: initialized is monotone.  It is false in the initial state; a step
\* makes it true only as the return of an initialize() run whose base
\* initialization resolved and whose listeners were registered; and no step,
\* of a later failing initialize(), of setAdsRemoved or of any other
\* operation, takes it from true back to false.
InitializedMonotone ==
  /\ ~isInitialized
  /\ [][/\ isInitialized => isInitialized'
        /\ (~isInitialized /\ isInitialized')
             => \E t \in Tasks :
                  /\ tasks[t].op = "initialize"
                  /\ tasks[t].pc \in {"init_consentInfo", "init_consentForm"}
                  /\ tasks[t].ok
                  /\ Returns(t)
                  /\ ev'.lis = "ok"]_vars

\* a later initialize() whose base initialization rejected has returned and
\* initialized is still true
InitializedMonotoneWitness ==
  /\ ev.op = "initialize"
  /\ ev.done = "initialize"
  /\ ~ev.ok
  /\ isInitialized
====
